---- MODULE Spec2Model ----
(***************************************************************************)
(* Confluence Cloud MCP server (confluence_mcp.py): the tool handlers, the *)
(* pydantic input models that guard them and the authenticated request     *)
(* executor, as a state machine of tool invocations.                       *)
(*                                                                         *)
(* Text (a Python str) is a sequence of atoms; an atom is a one-character  *)
(* string for caller- and remote-supplied text and a literal fragment for  *)
(* text the program itself writes.  An Optional[str] is a set holding at   *)
(* most one text ({} is None).  A raw tool argument is a set holding at    *)
(* most one value ({} is "argument not supplied").  JSON values are tagged *)
(* records; a JSON object keeps its members in order, as a Python dict.    *)
(***************************************************************************)
EXTENDS Integers, Sequences, FiniteSets, TLC

\* ------------------------------------------------------------------ bounds
\* Longest caller-supplied text that is enumerated character by character.
MaxStrLen == 2
\* Largest version_number a caller supplies.
MaxVersion == 3
\* How far past the 500-character cut an error body is enumerated.
MaxOverrun == 2

\* --------------------------------------------------------------- constants
CONFLUENCE_BASE_URL == "https://aofoundation.atlassian.net"
CONFLUENCE_API_V2 == "https://aofoundation.atlassian.net/wiki/api/v2"
CONFLUENCE_API_V1 == "https://aofoundation.atlassian.net/wiki/rest/api"

\* response.text[:500] in make_request
ErrorDetailLimit == 500
\* storage.get('value', '')[:2000] in format_page
ContentLimit == 2000

\* ------------------------------------------------------------------- text
Chars == {"a", " "}

None == {}
Some(x) == {x}
TheOne(s) == CHOOSE x \in s : TRUE

Min(a, b) == IF a < b THEN a ELSE b

\* s[:n]
Prefix(s, n) == SubSeq(s, 1, Min(n, Len(s)))

\* n copies of the atom c
Repeat(c, n) == [i \in 1..n |-> c]

RECURSIVE LStrip(_)
LStrip(s) == IF s # <<>> /\ Head(s) = " " THEN LStrip(Tail(s)) ELSE s

RECURSIVE RStrip(_)
RStrip(s) ==
    IF s # <<>> /\ s[Len(s)] = " " THEN RStrip(SubSeq(s, 1, Len(s) - 1)) ELSE s

\* str.strip(), which pydantic applies under str_strip_whitespace=True
Strip(s) == RStrip(LStrip(s))

\* bool(x) of an Optional[str]: None and "" are falsy
Truthy(opt) == opt # None /\ TheOne(opt) # <<>>

\* ------------------------------------------------------------------- JSON
JNull == [t |-> "null"]
JStr(s) == [t |-> "str", s |-> s]
JNum(n) == [t |-> "num", n |-> n]
JArr(a) == [t |-> "arr", a |-> a]
\* kv: a sequence of <<key, value>> members
JObj(kv) == [t |-> "obj", kv |-> kv]

EmptyDict == JObj(<<>>)

HasKey(d, k) == \E i \in 1..Len(d.kv) : d.kv[i][1] = k

\* d[k]
Item(d, k) == d.kv[CHOOSE i \in 1..Len(d.kv) : d.kv[i][1] = k][2]

\* d.get(k, default)
Get(d, k, default) == IF HasKey(d, k) THEN Item(d, k) ELSE default

\* bool(v) of a JSON value
JTruthy(v) ==
    CASE v.t = "null" -> FALSE
      [] v.t = "str" -> v.s # <<>>
      [] v.t = "num" -> v.n # 0
      [] v.t = "arr" -> v.a # <<>>
      [] v.t = "obj" -> v.kv # <<>>

\* json.dumps(v, indent=indent) at nesting depth level; indent < 0 is indent=None
RECURSIVE JsonText(_, _, _)
RECURSIVE JsonMembers(_, _, _, _)
JsonText(v, indent, level) ==
    LET nl(l) == IF indent < 0 THEN <<>> ELSE <<"\n">> \o Repeat(" ", indent * l)
    IN CASE v.t = "null" -> <<"null">>
         [] v.t = "str" -> <<"\"">> \o v.s \o <<"\"">>
         [] v.t = "num" -> <<ToString(v.n)>>
         [] v.t = "arr" ->
              IF v.a = <<>> THEN <<"[]">>
              ELSE <<"[">> \o nl(level + 1) \o JsonMembers(v, indent, level, 1)
                     \o nl(level) \o <<"]">>
         [] v.t = "obj" ->
              IF v.kv = <<>> THEN <<"{}">>
              ELSE <<"{">> \o nl(level + 1) \o JsonMembers(v, indent, level, 1)
                     \o nl(level) \o <<"}">>

\* the members of the array or object v from the i-th on, separated
JsonMembers(v, indent, level, i) ==
    LET n == IF v.t = "arr" THEN Len(v.a) ELSE Len(v.kv)
        one == IF v.t = "arr" THEN JsonText(v.a[i], indent, level + 1)
               ELSE <<"\"", v.kv[i][1], "\": ">>
                      \o JsonText(v.kv[i][2], indent, level + 1)
        sep == IF indent < 0 THEN <<", ">>
               ELSE <<",", "\n">> \o Repeat(" ", indent * (level + 1))
    IN IF i = n THEN one ELSE one \o sep \o JsonMembers(v, indent, level, i + 1)

\* json.dumps(v, indent=2)
json_dumps(v) == JsonText(v, 2, 0)

\* ------------------------------------------------------- the remote service
\* One record of a "results" list, with every field a formatter reads.
ItemA ==
    JObj(<< <<"id", JStr(<<"7">>)>>, <<"key", JStr(<<"a">>)>>,
            <<"name", JStr(<<"a", " ", "a">>)>>, <<"type", JStr(<<"global">>)>>,
            <<"status", JStr(<<"current">>)>>, <<"title", JStr(<<"a">>)>>,
            <<"spaceId", JStr(<<"9">>)>>,
            <<"space", JObj(<< <<"key", JStr(<<"a">>)>> >>)>> >>)

\* A record with none of them.
ItemB == JObj(<< <<"id", JNum(8)>> >>)

\* A page as GET /pages/{id} returns it, at version v.
PageAt(v) ==
    JObj(<< <<"id", JStr(<<"7">>)>>, <<"status", JStr(<<"current">>)>>,
            <<"title", JStr(<<"a">>)>>, <<"spaceId", JStr(<<"9">>)>>,
            <<"version", JObj(<< <<"number", JNum(v)>> >>)>>,
            <<"body", JObj(<< <<"storage",
                  JObj(<< <<"value", JStr(<<"a", " ">>)>> >>)>> >>)>> >>)

\* A page as the remote service returns it, by version, title and content.
PageWith(v, title, content) ==
    JObj(<< <<"id", JStr(<<"7">>)>>, <<"status", JStr(<<"current">>)>>,
            <<"title", JStr(title)>>, <<"spaceId", JStr(<<"9">>)>>,
            <<"version", JObj(<< <<"number", JNum(v)>> >>)>>,
            <<"body", JObj(<< <<"storage",
                  JObj(<< <<"value", JStr(content)>> >>)>> >>)>> >>)

\* The titles and the contents the page of the remote service goes through.
PageTitles == {<<"t">>, <<"a">>}
PageContents == {<<"a", " ">>, <<"a">>}

\* The page of the remote service at every stage of its life.
RemotePages ==
    { PageWith(v, title, content) :
        v \in 1..(MaxVersion + 2), title \in PageTitles, content \in PageContents }

ListOf(items) == JObj(<< <<"results", JArr(items)>> >>)

ListWithLinks(items, links) ==
    JObj(<< <<"results", JArr(items)>>, <<"_links", JObj(links)>> >>)

\* The JSON objects the remote service answers with.
Payloads ==
    { EmptyDict, ItemA, ItemB,
      ListOf(<<>>), ListOf(<<ItemB, ItemA>>),
      JObj(<< <<"results", JNull>> >>),
      ListWithLinks(<<>>, << <<"next", JStr(<<"/", "a">>)>> >>),
      ListWithLinks(<<ItemA>>, << <<"next", JStr(<<"/", "a">>)>> >>),
      ListWithLinks(<<ItemA>>, << <<"next", JStr(<<>>)>> >>),
      ListWithLinks(<<ItemA, ItemB>>, <<>>) }
    \cup { PageAt(v) : v \in {1, MaxVersion + 1} }

\* json.loads: every text json.dumps writes for a payload, with or without
\* indentation, and the payload it parses to
ParseTable ==
    {<<JsonText(v, indent, 0), v>> : v \in Payloads \cup RemotePages, indent \in {-1, 2}}

\* does json.loads(text) return (rather than raise)?
CanParse(text) == \E e \in ParseTable : e[1] = text

json_loads(text) == (CHOOSE e \in ParseTable : e[1] = text)[2]

\* A body that is not JSON (an HTML page of a proxy or a login redirect).
NotJson == <<"<html>">>

\* Bodies around the 500-character cut of an API error's detail.
LongBodies ==
    { Repeat("a", n) : n \in (ErrorDetailLimit - 1)..(ErrorDetailLimit + MaxOverrun) }

\* response.status_code and response.text of the answer to one request; the
\* remote service is free to answer anything.
Responses ==
    [status : {200}, text : {JsonText(p, -1, 0) : p \in Payloads} \cup {<<>>, NotJson}]
    \cup [status : {204}, text : {<<>>}]
    \cup [status : {302}, text : {<<>>, NotJson}]
    \cup [status : {401, 403, 404}, text : {<<>>}]
    \cup [status : {400}, text : {<<>>} \cup LongBodies]
    \cup [status : {500}, text : {NotJson}]

\* The request did not complete: httpx raises (connect error, 30 s timeout).
TransportFailure == [status |-> 0, text |-> <<>>]

\* --------------------------------------------- authentication & HTTP client
CredentialVars == {"CONFLUENCE_EMAIL", "CONFLUENCE_API_TOKEN"}

ValueError(msg) == [type |-> "ValueError", msg |-> msg]

MissingCredentials ==
    ValueError(<<"Missing credentials. Set CONFLUENCE_EMAIL and CONFLUENCE_API_TOKEN environment variables. ">>)

\* get_auth_headers(): does it return (both variables set and non-empty)?
get_auth_headers_ok(env) == CredentialVars \subseteq env

AuthenticationFailed ==
    ValueError(<<"Authentication failed. Check your CONFLUENCE_EMAIL and CONFLUENCE_API_TOKEN.">>)

PermissionDenied ==
    ValueError(<<"Permission denied. Your account may not have access to this resource.">>)

ResourceNotFound ==
    ValueError(<<"Resource not found. Check the ID or key provided.">>)

\* error_detail as it would be without the cut
error_detail_uncut(text) == IF text # <<>> THEN text ELSE <<"No details">>

\* response.text[:500] if response.text else "No details"
error_detail(text) ==
    IF text # <<>> THEN Prefix(text, ErrorDetailLimit) ELSE <<"No details">>

ApiError(status, text) ==
    ValueError(<<"API error ", ToString(status), ": ">> \o error_detail(text))

\* what response.json() raises on a body that is not JSON
JSONDecodeError == [type |-> "JSONDecodeError", msg |-> <<"Expecting value">>]

\* what client.request raises when no response arrives
TransportError == [type |-> "httpx.TransportError", msg |-> <<>>]

\* make_request from the response on: what it raises or returns
\* ([ok |-> TRUE, data |-> ...] or [ok |-> FALSE, error |-> ...])
make_request(resp) ==
    CASE resp = TransportFailure -> [ok |-> FALSE, error |-> TransportError]
      [] resp # TransportFailure /\ resp.status = 401 ->
           [ok |-> FALSE, error |-> AuthenticationFailed]
      [] resp # TransportFailure /\ resp.status = 403 ->
           [ok |-> FALSE, error |-> PermissionDenied]
      [] resp # TransportFailure /\ resp.status = 404 ->
           [ok |-> FALSE, error |-> ResourceNotFound]
      [] resp # TransportFailure /\ resp.status \notin {401, 403, 404}
           /\ resp.status >= 400 ->
           [ok |-> FALSE, error |-> ApiError(resp.status, resp.text)]
      [] OTHER ->
           IF resp.text = <<>> THEN [ok |-> TRUE, data |-> EmptyDict]
           ELSE IF CanParse(resp.text)
                THEN [ok |-> TRUE, data |-> json_loads(resp.text)]
                ELSE [ok |-> FALSE, error |-> JSONDecodeError]

\* ------------------------------------------------------------ input models
\* ExtraForbidden as it would be under extra='ignore'
ExtraIgnored(raw) == {}

\* ConfigDict(extra='forbid'): the undeclared arguments, each an error
ExtraForbidden(raw) == raw.extra

\* IntInBounds as it would be with the upper bound exclusive of one more
IntInBoundsOffByOne(v, ge, le) == \A x \in v : ge <= x /\ x <= le + 1

\* Field(ge=.., le=..) on an int: is the supplied value, if any, in bounds?
IntInBounds(v, ge, le) == \A x \in v : ge <= x /\ x <= le

\* a required str with min_length (checked on the stripped text)
RequiredStrOk(v, min_length) == v # {} /\ Len(Strip(TheOne(v))) >= min_length

\* ... and max_length
BoundedStrOk(v, min_length, max_length) ==
    RequiredStrOk(v, min_length) /\ Len(Strip(TheOne(v))) <= max_length

\* the validated value of an argument that has a default
OrDefault(v, default) == IF v = {} THEN default ELSE TheOne(v)

\* the validated value of a str argument: stripped
StrValue(v, default) == IF v = {} THEN default ELSE Strip(TheOne(v))

\* the validated value of an Optional[str] argument: None, or stripped
OptStrValue(v, default) ==
    IF v = {} THEN default
    ELSE IF TheOne(v) = None THEN None ELSE Some(Strip(TheOne(TheOne(v))))

\* ResponseFormat
MARKDOWN == "markdown"
JSON == "json"
ResponseFormat == {MARKDOWN, JSON}

\* the names of the arguments pydantic rejects
Errors(extra, l) == extra \cup {l[i][1] : i \in {j \in 1..Len(l) : ~l[j][2]}}

ListSpacesInputErrors(raw) ==
    Errors(ExtraForbidden(raw),
           << <<"limit", IntInBounds(raw.limit, 1, 250)>>,
              <<"response_format", raw.response_format \subseteq ResponseFormat>> >>)

ListSpacesInput(raw) ==
    [limit |-> OrDefault(raw.limit, 25),
     cursor |-> OptStrValue(raw.cursor, None),
     type |-> OptStrValue(raw.type, None),
     response_format |-> OrDefault(raw.response_format, MARKDOWN)]

GetSpaceInputErrors(raw) ==
    Errors(ExtraForbidden(raw),
           << <<"space_id", RequiredStrOk(raw.space_id, 1)>>,
              <<"response_format", raw.response_format \subseteq ResponseFormat>> >>)

GetSpaceInput(raw) ==
    [space_id |-> StrValue(raw.space_id, <<>>),
     response_format |-> OrDefault(raw.response_format, MARKDOWN)]

GetSpaceByKeyInputErrors(raw) ==
    Errors(ExtraForbidden(raw),
           << <<"space_key", BoundedStrOk(raw.space_key, 1, 255)>>,
              <<"response_format", raw.response_format \subseteq ResponseFormat>> >>)

GetSpaceByKeyInput(raw) ==
    [space_key |-> StrValue(raw.space_key, <<>>),
     response_format |-> OrDefault(raw.response_format, MARKDOWN)]

ListPagesInputErrors(raw) ==
    Errors(ExtraForbidden(raw),
           << <<"limit", IntInBounds(raw.limit, 1, 250)>>,
              <<"response_format", raw.response_format \subseteq ResponseFormat>> >>)

ListPagesInput(raw) ==
    [space_id |-> OptStrValue(raw.space_id, None),
     limit |-> OrDefault(raw.limit, 25),
     cursor |-> OptStrValue(raw.cursor, None),
     title |-> OptStrValue(raw.title, None),
     status |-> OptStrValue(raw.status, Some(<<"current">>)),
     response_format |-> OrDefault(raw.response_format, MARKDOWN)]

GetPageInputErrors(raw) ==
    Errors(ExtraForbidden(raw),
           << <<"page_id", RequiredStrOk(raw.page_id, 1)>>,
              <<"response_format", raw.response_format \subseteq ResponseFormat>> >>)

GetPageInput(raw) ==
    [page_id |-> StrValue(raw.page_id, <<>>),
     include_body |-> OrDefault(raw.include_body, TRUE),
     body_format |-> StrValue(raw.body_format, <<"storage">>),
     response_format |-> OrDefault(raw.response_format, MARKDOWN)]

SearchContentInputErrors(raw) ==
    Errors(ExtraForbidden(raw),
           << <<"query", BoundedStrOk(raw.query, 1, 500)>>,
              <<"limit", IntInBounds(raw.limit, 1, 100)>>,
              <<"response_format", raw.response_format \subseteq ResponseFormat>> >>)

SearchContentInput(raw) ==
    [query |-> StrValue(raw.query, <<>>),
     limit |-> OrDefault(raw.limit, 25),
     response_format |-> OrDefault(raw.response_format, MARKDOWN)]

CreatePageInputErrors(raw) ==
    Errors(ExtraForbidden(raw),
           << <<"space_id", RequiredStrOk(raw.space_id, 1)>>,
              <<"title", BoundedStrOk(raw.title, 1, 255)>>,
              <<"response_format", raw.response_format \subseteq ResponseFormat>> >>)

CreatePageInput(raw) ==
    [space_id |-> StrValue(raw.space_id, <<>>),
     title |-> StrValue(raw.title, <<>>),
     body |-> StrValue(raw.body, <<>>),
     parent_id |-> OptStrValue(raw.parent_id, None),
     response_format |-> OrDefault(raw.response_format, MARKDOWN)]

UpdatePageInputErrors(raw) ==
    Errors(ExtraForbidden(raw),
           << <<"page_id", RequiredStrOk(raw.page_id, 1)>>,
              <<"version_number",
                raw.version_number # {} /\ \A n \in raw.version_number : n >= 1>>,
              <<"response_format", raw.response_format \subseteq ResponseFormat>> >>)

UpdatePageInput(raw) ==
    [page_id |-> StrValue(raw.page_id, <<>>),
     title |-> OptStrValue(raw.title, None),
     body |-> OptStrValue(raw.body, None),
     version_number |-> OrDefault(raw.version_number, 0),
     response_format |-> OrDefault(raw.response_format, MARKDOWN)]

GetPagesInSpaceInputErrors(raw) ==
    Errors(ExtraForbidden(raw),
           << <<"space_id", RequiredStrOk(raw.space_id, 1)>>,
              <<"limit", IntInBounds(raw.limit, 1, 250)>>,
              <<"response_format", raw.response_format \subseteq ResponseFormat>> >>)

GetPagesInSpaceInput(raw) ==
    [space_id |-> StrValue(raw.space_id, <<>>),
     limit |-> OrDefault(raw.limit, 25),
     cursor |-> OptStrValue(raw.cursor, None),
     depth |-> OptStrValue(raw.depth, Some(<<"all">>)),
     response_format |-> OrDefault(raw.response_format, MARKDOWN)]

\* ------------------------------------------------------ response formatting
RECURSIVE Flatten(_)
Flatten(texts) == IF texts = <<>> THEN <<>> ELSE Head(texts) \o Flatten(Tail(texts))

\* str(v) inside an f-string
PyStr(v) ==
    CASE v.t = "str" -> v.s
      [] v.t = "null" -> <<"None">>
      [] OTHER -> JsonText(v, -1, 0)

\* f"{d.get(k, default)}"
Field(d, k, default) == PyStr(Get(d, k, JStr(<<default>>)))

format_space(space, fmt) ==
    IF fmt = JSON THEN json_dumps(space)
    ELSE <<"## ">> \o Field(space, "name", "Unknown")
         \o <<"\n- **Key**: ">> \o Field(space, "key", "N/A")
         \o <<"\n- **ID**: ">> \o Field(space, "id", "N/A")
         \o <<"\n- **Type**: ">> \o Field(space, "type", "N/A")
         \o <<"\n- **Status**: ">> \o Field(space, "status", "N/A")
         \o <<"\n- **URL**: ", CONFLUENCE_BASE_URL, "/wiki/spaces/">>
         \o PyStr(Get(space, "key", JStr(<<>>)))

format_page(page, fmt) ==
    IF fmt = JSON THEN json_dumps(page)
    ELSE LET body == Get(page, "body", EmptyDict)
             storage == Get(body, "storage", EmptyDict)
             head == <<"## ">> \o Field(page, "title", "Untitled")
                     \o <<"\n- **ID**: ">> \o Field(page, "id", "N/A")
                     \o <<"\n- **Space ID**: ">> \o Field(page, "spaceId", "N/A")
                     \o <<"\n- **Status**: ">> \o Field(page, "status", "N/A")
                     \o <<"\n- **URL**: ", CONFLUENCE_BASE_URL, "/wiki/pages/">>
                     \o Field(page, "id", "N/A")
         IN IF JTruthy(body) /\ JTruthy(storage)
               /\ JTruthy(Get(storage, "value", JNull))
            THEN head \o <<"\n\n### Content\n">>
                 \o Prefix(Get(storage, "value", JStr(<<>>)).s, ContentLimit)
            ELSE head

\* data.get("results", [])
Results(data) == Get(data, "results", JArr(<<>>))

\* len(results)
Count(results) == ToString(Len(results.a))

\* data.get("_links", {}).get("next") is truthy
HasNext(data) == JTruthy(Get(Get(data, "_links", EmptyDict), "next", JNull))

\* ----------------------------------------------------------------- requests
NoParams == <<>>
NoJson == [t |-> "absent"]

Request(method, url, params, json) ==
    [method |-> method, url |-> url, params |-> params, json |-> json]

\* query_params[k] = v, when cond
With(d, cond, k, v) == IF cond THEN d @@ (k :> v) ELSE d

\* ------------------------------------------------------------ tools: spaces
list_spaces_request(p) ==
    Request("GET", <<CONFLUENCE_API_V2, "/spaces">>,
            With(With("limit" :> p.limit,
                      Truthy(p.cursor), "cursor", TheOne(p.cursor)),
                 Truthy(p.type), "type", TheOne(p.type)),
            NoJson)

list_spaces_result(p, data) ==
    LET spaces == Results(data)
    IN IF p.response_format = JSON THEN json_dumps(data)
       ELSE IF ~JTruthy(spaces) THEN <<"No spaces found.">>
       ELSE <<"# Confluence Spaces (", Count(spaces), " results)\n\n">>
            \o Flatten([i \in 1..Len(spaces.a) |->
                   format_space(spaces.a[i], p.response_format)
                   \o <<"\n\n---\n\n">>])
            \o (IF HasNext(data)
                THEN <<"\n**More results available.** Use cursor to get next page.">>
                ELSE <<>>)

get_space_request(p) ==
    Request("GET", <<CONFLUENCE_API_V2, "/spaces/">> \o p.space_id, NoParams, NoJson)

get_space_result(p, data) == format_space(data, p.response_format)

\* get_space_by_key_request as it would be without the limit
get_space_by_key_request_unlimited(p) ==
    Request("GET", <<CONFLUENCE_API_V2, "/spaces">>, "keys" :> p.space_key, NoJson)

get_space_by_key_request(p) ==
    Request("GET", <<CONFLUENCE_API_V2, "/spaces">>,
            ("keys" :> p.space_key) @@ ("limit" :> 1), NoJson)

get_space_by_key_result(p, data) ==
    LET spaces == Results(data)
    IN IF ~JTruthy(spaces)
       THEN <<"Space with key '">> \o p.space_key \o <<"' not found.">>
       ELSE format_space(spaces.a[1], p.response_format)

\* ------------------------------------------------------------- tools: pages
list_pages_request(p) ==
    Request("GET",
            IF Truthy(p.space_id)
            THEN <<CONFLUENCE_API_V2, "/spaces/">> \o TheOne(p.space_id) \o <<"/pages">>
            ELSE <<CONFLUENCE_API_V2, "/pages">>,
            With(With(With("limit" :> p.limit,
                           Truthy(p.cursor), "cursor", TheOne(p.cursor)),
                      Truthy(p.title), "title", TheOne(p.title)),
                 Truthy(p.status), "status", TheOne(p.status)),
            NoJson)

list_pages_item(page) ==
    <<"### ">> \o Field(page, "title", "Untitled") \o <<"\n">>
    \o <<"- **ID**: ">> \o Field(page, "id", "N/A") \o <<"\n">>
    \o <<"- **Space ID**: ">> \o Field(page, "spaceId", "N/A") \o <<"\n">>
    \o <<"- **Status**: ">> \o Field(page, "status", "N/A") \o <<"\n">>
    \o <<"- **URL**: ", CONFLUENCE_BASE_URL, "/wiki/pages/">>
    \o PyStr(Get(page, "id", JStr(<<>>))) \o <<"\n\n">>

\* list_pages_result as it would be without the test for an empty result
list_pages_result_no_empty_case(p, data) ==
    LET pages == Results(data)
        listed == IF pages.t = "arr" THEN pages.a ELSE <<>>
    IN IF p.response_format = JSON THEN json_dumps(data)
       ELSE <<"# Confluence Pages (", ToString(Len(listed)), " results)\n\n">>
            \o Flatten([i \in 1..Len(listed) |-> list_pages_item(listed[i])])
            \o (IF HasNext(data)
                THEN <<"\n**More results available.** Use cursor for next page.">>
                ELSE <<>>)

list_pages_result(p, data) ==
    LET pages == Results(data)
    IN IF p.response_format = JSON THEN json_dumps(data)
       ELSE IF ~JTruthy(pages) THEN <<"No pages found.">>
       ELSE <<"# Confluence Pages (", Count(pages), " results)\n\n">>
            \o Flatten([i \in 1..Len(pages.a) |-> list_pages_item(pages.a[i])])
            \o (IF HasNext(data)
                THEN <<"\n**More results available.** Use cursor for next page.">>
                ELSE <<>>)

get_page_request(p) ==
    Request("GET", <<CONFLUENCE_API_V2, "/pages/">> \o p.page_id,
            With(NoParams, p.include_body, "body-format", p.body_format), NoJson)

get_page_result(p, data) == format_page(data, p.response_format)

get_pages_in_space_request(p) ==
    Request("GET", <<CONFLUENCE_API_V2, "/spaces/">> \o p.space_id \o <<"/pages">>,
            With(With("limit" :> p.limit,
                      Truthy(p.cursor), "cursor", TheOne(p.cursor)),
                 Truthy(p.depth), "depth", TheOne(p.depth)),
            NoJson)

get_pages_in_space_item(page) ==
    <<"### ">> \o Field(page, "title", "Untitled") \o <<"\n">>
    \o <<"- **ID**: ">> \o Field(page, "id", "N/A") \o <<"\n">>
    \o <<"- **Status**: ">> \o Field(page, "status", "N/A") \o <<"\n">>
    \o <<"- **URL**: ", CONFLUENCE_BASE_URL, "/wiki/pages/">>
    \o PyStr(Get(page, "id", JStr(<<>>))) \o <<"\n\n">>

\* get_pages_in_space_result as it would be with the emptiness test moved ahead
\* of the format test
get_pages_in_space_result_empty_first(p, data) ==
    LET pages == Results(data)
    IN IF ~JTruthy(pages)
       THEN <<"No pages found in space ">> \o p.space_id \o <<".">>
       ELSE IF p.response_format = JSON THEN json_dumps(data)
       ELSE <<"# Pages in Space (", Count(pages), " results)\n\n">>
            \o Flatten([i \in 1..Len(pages.a) |->
                   get_pages_in_space_item(pages.a[i])])

get_pages_in_space_result(p, data) ==
    LET pages == Results(data)
    IN IF p.response_format = JSON THEN json_dumps(data)
       ELSE IF ~JTruthy(pages)
       THEN <<"No pages found in space ">> \o p.space_id \o <<".">>
       ELSE <<"# Pages in Space (", Count(pages), " results)\n\n">>
            \o Flatten([i \in 1..Len(pages.a) |->
                   get_pages_in_space_item(pages.a[i])])

search_request(p) ==
    Request("GET", <<CONFLUENCE_API_V1, "/content/search">>,
            ("cql" :> p.query) @@ ("limit" :> p.limit), NoJson)

\* the grave accent that opens and closes inline code in markdown
Backtick == "<grave accent>"

search_item(item) ==
    LET space == Get(item, "space", EmptyDict)
    IN <<"### ">> \o Field(item, "title", "Untitled") \o <<"\n">>
       \o <<"- **Type**: ">> \o Field(item, "type", "unknown") \o <<"\n">>
       \o <<"- **ID**: ">> \o PyStr(Get(item, "id", JStr(<<>>))) \o <<"\n">>
       \o <<"- **Space**: ">>
       \o (IF JTruthy(space) THEN Field(space, "key", "N/A") ELSE <<"N/A">>)
       \o <<"\n">>
       \o <<"- **URL**: ", CONFLUENCE_BASE_URL, "/wiki/pages/">>
       \o PyStr(Get(item, "id", JStr(<<>>))) \o <<"\n\n">>

search_result(p, data) ==
    LET results == Results(data)
    IN IF p.response_format = JSON THEN json_dumps(data)
       ELSE IF ~JTruthy(results)
       THEN <<"No results found for query: ">> \o p.query
       ELSE <<"# Search Results (", Count(results), " found)\n\n">>
            \o <<"**Query**: ", Backtick>> \o p.query \o <<Backtick, "\n\n">>
            \o Flatten([i \in 1..Len(results.a) |-> search_item(results.a[i])])

\* create_page_payload as it would be if the parent were always a member, null
\* when there is none
create_page_payload_null_parent(p) ==
    JObj(<< <<"spaceId", JStr(p.space_id)>>, <<"status", JStr(<<"current">>)>>,
            <<"title", JStr(p.title)>>,
            <<"body", JObj(<< <<"representation", JStr(<<"storage">>)>>,
                              <<"value", JStr(p.body)>> >>)>>,
            <<"parentId", IF Truthy(p.parent_id) THEN JStr(TheOne(p.parent_id))
                          ELSE JNull>> >>)

create_page_payload(p) ==
    LET payload ==
          << <<"spaceId", JStr(p.space_id)>>, <<"status", JStr(<<"current">>)>>,
             <<"title", JStr(p.title)>>,
             <<"body", JObj(<< <<"representation", JStr(<<"storage">>)>>,
                               <<"value", JStr(p.body)>> >>)>> >>
    IN JObj(IF Truthy(p.parent_id)
            THEN Append(payload, <<"parentId", JStr(TheOne(p.parent_id))>>)
            ELSE payload)

\* create_page_request as it would be if it posted to the space's own collection
create_page_request_in_space(p) ==
    Request("POST", <<CONFLUENCE_API_V2, "/spaces/">> \o p.space_id \o <<"/pages">>,
            NoParams, create_page_payload(p))

create_page_request(p) ==
    Request("POST", <<CONFLUENCE_API_V2, "/pages">>, NoParams, create_page_payload(p))

create_page_result(p, data) ==
    IF p.response_format = JSON THEN json_dumps(data)
    ELSE <<"# Page Created Successfully\n\n">>
         \o <<"- **Title**: ">> \o Field(data, "title", "N/A")
         \o <<"\n- **ID**: ">> \o Field(data, "id", "N/A")
         \o <<"\n- **Space ID**: ">> \o Field(data, "spaceId", "N/A")
         \o <<"\n- **Status**: ">> \o Field(data, "status", "N/A")
         \o <<"\n- **URL**: ", CONFLUENCE_BASE_URL, "/wiki/pages/">>
         \o PyStr(Get(data, "id", JStr(<<>>)))

\* the GET that opens confluence_update_page
update_page_read(p) ==
    Request("GET", <<CONFLUENCE_API_V2, "/pages/">> \o p.page_id, NoParams, NoJson)

\* params.version_number + 1
next_version(p) == p.version_number + 1

\* update_page_payload as it would be if the version were taken from the page
\* just read instead of from the caller
update_page_payload_from_read(p, current) ==
    LET read == Get(Get(current, "version", EmptyDict), "number",
                    JNum(p.version_number))
        payload ==
          << <<"id", JStr(p.page_id)>>, <<"status", JStr(<<"current">>)>>,
             <<"title", IF Truthy(p.title) THEN JStr(TheOne(p.title))
                        ELSE Get(current, "title", JNull)>>,
             <<"spaceId", Get(current, "spaceId", JNull)>>,
             <<"version", JObj(<< <<"number", JNum(read.n + 1)>>,
                                  <<"message", JStr(<<"Updated via MCP">>)>> >>)>> >>
    IN JObj(IF p.body # None
            THEN Append(payload,
                   <<"body", JObj(<< <<"representation", JStr(<<"storage">>)>>,
                                     <<"value", JStr(TheOne(p.body))>> >>)>>)
            ELSE payload)

\* update_page_payload as it would be if the body were tested for truth, as the
\* title is, instead of against None
update_page_payload_body_if_truthy(p, current) ==
    LET payload ==
          << <<"id", JStr(p.page_id)>>, <<"status", JStr(<<"current">>)>>,
             <<"title", IF Truthy(p.title) THEN JStr(TheOne(p.title))
                        ELSE Get(current, "title", JNull)>>,
             <<"spaceId", Get(current, "spaceId", JNull)>>,
             <<"version", JObj(<< <<"number", JNum(next_version(p))>>,
                                  <<"message", JStr(<<"Updated via MCP">>)>> >>)>> >>
    IN JObj(IF Truthy(p.body)
            THEN Append(payload,
                   <<"body", JObj(<< <<"representation", JStr(<<"storage">>)>>,
                                     <<"value", JStr(TheOne(p.body))>> >>)>>)
            ELSE payload)

update_page_payload(p, current) ==
    LET payload ==
          << <<"id", JStr(p.page_id)>>, <<"status", JStr(<<"current">>)>>,
             <<"title", IF Truthy(p.title) THEN JStr(TheOne(p.title))
                        ELSE Get(current, "title", JNull)>>,
             <<"spaceId", Get(current, "spaceId", JNull)>>,
             <<"version", JObj(<< <<"number", JNum(next_version(p))>>,
                                  <<"message", JStr(<<"Updated via MCP">>)>> >>)>> >>
    IN JObj(IF p.body # None
            THEN Append(payload,
                   <<"body", JObj(<< <<"representation", JStr(<<"storage">>)>>,
                                     <<"value", JStr(TheOne(p.body))>> >>)>>)
            ELSE payload)

\* update_page_write as it would be if the PUT carried the version just read
\* plus one, whatever the caller passed
update_page_write_from_read(p, current) ==
    Request("PUT", <<CONFLUENCE_API_V2, "/pages/">> \o p.page_id, NoParams,
            update_page_payload_from_read(p, current))

\* the PUT that follows it
update_page_write(p, current) ==
    Request("PUT", <<CONFLUENCE_API_V2, "/pages/">> \o p.page_id, NoParams,
            update_page_payload(p, current))

update_page_result(p, data) ==
    IF p.response_format = JSON THEN json_dumps(data)
    ELSE <<"# Page Updated Successfully\n\n">>
         \o <<"- **Title**: ">> \o Field(data, "title", "N/A")
         \o <<"\n- **ID**: ">> \o Field(data, "id", "N/A")
         \o <<"\n- **Version**: ">>
         \o PyStr(Get(Get(data, "version", EmptyDict), "number", JStr(<<"N/A">>)))
         \o <<"\n- **URL**: ", CONFLUENCE_BASE_URL, "/wiki/pages/">>
         \o PyStr(Get(data, "id", JStr(<<>>)))

\* ------------------------------------------------------ what callers supply
Texts == UNION {[1..k -> Chars] : k \in 0..MaxStrLen}

\* a required str argument: not supplied, or any short text
RequiredStrArgs == {{}} \cup {{s} : s \in Texts}
\* the same, from fewer texts
SmallStrArgs == {{}, {<<" ">>}, {<<"a", " ">>}}
\* a space key: also texts at and past max_length=255
KeyArgs == RequiredStrArgs \cup {{Repeat("a", n)} : n \in {255, 256}}
\* an Optional[str] argument: not supplied, blank, a text, an explicit None
OptStrArgs == {{}, {Some(<<" ">>)}, {Some(<<"a">>)}}
OptStrOrNoneArgs == OptStrArgs \cup {{None}}
CursorArgs == {{}, {Some(<<"a">>)}}
\* limit: not supplied, and each side of every documented bound
LimitArgs == {{}} \cup {{n} : n \in {0, 1, 100, 101, 250, 251}}
\* the same, without the values in between
EdgeLimitArgs == {{}} \cup {{n} : n \in {0, 1, 250, 251}}
VersionArgs == {{}} \cup {{n} : n \in 0..MaxVersion}
FormatArgs == {{}, {MARKDOWN}, {JSON}, {"xml"}}
BoolArgs == {{}, {TRUE}, {FALSE}}
\* arguments no input model declares
ExtraArgs == {{}, {"verbose"}}

\* ---------------------------------------------------------- the invocations
VARIABLES
    inv,       \* per caller, the tool invocation it has in progress
    environ,   \* the environment variables that are set (and not empty)
    remote     \* the page the remote service holds, where the service is modelled

vars == <<inv, environ, remote>>

\* the remote service is not modelled: it answers anything (Responses)
Unobserved ==
    [version |-> 0, title |-> <<>>, content |-> <<>>, first |-> 0, applied |-> <<>>]

NoError == [type |-> "none", msg |-> <<>>]
ValidationError == [type |-> "ValidationError", msg |-> <<>>]

\* pc: "idle", "awaiting" (suspended in await client.request), "returned", "raised"
\* sent: the requests issued so far; answered: how many of them have been
\* answered; response: the latest answer
\* current, data: the handler's locals of those names
Idle ==
    [pc |-> "idle", tool |-> "none", raw |-> [extra |-> {}], params |-> <<>>,
     invalid |-> {}, sent |-> <<>>, answered |-> 0, response |-> TransportFailure,
     current |-> EmptyDict, data |-> EmptyDict,
     result |-> <<>>, error |-> NoError]

\* Raise as it would be if a request answered 404 were tried once more
RaiseUnlessRetried(i, err) ==
    IF err = ResourceNotFound /\ i.answered = Len(i.sent)
       /\ i.answered = (IF i.tool = "confluence_update_page" THEN 2 ELSE 1)
    THEN [i EXCEPT !.pc = "awaiting", !.sent = Append(@, @[Len(@)])]
    ELSE [i EXCEPT !.pc = "raised", !.error = err]

\* an exception leaves the handler: the invocation fails
Raise(i, err) == [i EXCEPT !.pc = "raised", !.error = err]

\* the handler returns text
Return(i, text) == [i EXCEPT !.pc = "returned", !.result = text]

\* make_request up to its await: resolve the credentials, then send
Send(i, req, env) ==
    IF ~get_auth_headers_ok(env) THEN Raise(i, MissingCredentials)
    ELSE [i EXCEPT !.pc = "awaiting", !.sent = Append(@, req)]

\* a tool is called: pydantic validates, then the handler runs to its first await
Call(tool, raw, errors, params, req, env) ==
    LET i == [Idle EXCEPT !.tool = tool, !.raw = raw]
    IN IF errors # {}
       THEN Raise([i EXCEPT !.invalid = errors], ValidationError)
       ELSE Send([i EXCEPT !.params = params], req, env)

\* the text a handler returns for the data of its (last) request
Formatted(tool, p, data) ==
    CASE tool = "confluence_list_spaces" -> list_spaces_result(p, data)
      [] tool = "confluence_get_space" -> get_space_result(p, data)
      [] tool = "confluence_get_space_by_key" -> get_space_by_key_result(p, data)
      [] tool = "confluence_list_pages" -> list_pages_result(p, data)
      [] tool = "confluence_get_page" -> get_page_result(p, data)
      [] tool = "confluence_get_pages_in_space" -> get_pages_in_space_result(p, data)
      [] tool = "confluence_search" -> search_result(p, data)
      [] tool = "confluence_create_page" -> create_page_result(p, data)
      [] tool = "confluence_update_page" -> update_page_result(p, data)

\* a handler from its last await on: make_request raises or returns data, and
\* the handler returns its formatted text
Finish(i, resp) ==
    LET out == make_request(resp)
        j == [i EXCEPT !.answered = @ + 1, !.response = resp]
    IN IF out.ok
       THEN Return([j EXCEPT !.data = out.data], Formatted(j.tool, j.params, out.data))
       ELSE Raise(j, out.error)

\* update_page_after_read as it would be if a failed GET were swallowed
update_page_after_read_unchecked(i, resp, env) ==
    LET out == make_request(resp)
        j == [i EXCEPT !.answered = @ + 1, !.response = resp]
        current == IF out.ok THEN out.data ELSE EmptyDict
    IN Send([j EXCEPT !.current = current],
            update_page_write(j.params, current), env)

\* confluence_update_page from its first await on: the GET's result becomes
\* current and the PUT goes out
update_page_after_read(i, resp, env) ==
    LET out == make_request(resp)
        j == [i EXCEPT !.answered = @ + 1, !.response = resp]
    IN IF out.ok
       THEN Send([j EXCEPT !.current = out.data],
                 update_page_write(j.params, out.data), env)
       ELSE Raise(j, out.error)

Awaiting(c, tool) == inv[c].pc = "awaiting" /\ inv[c].tool = tool

Answers == Responses \cup {TransportFailure}

\* ------------------------------------------------------------------ actions
Init ==
    /\ inv = [c \in {1} |-> Idle]
    /\ environ \in SUBSET CredentialVars
    /\ remote = Unobserved

confluence_list_spaces(c) ==
    /\ inv[c].pc = "idle"
    /\ \E raw \in [limit : LimitArgs, cursor : OptStrArgs, type : OptStrArgs,
                   response_format : FormatArgs, extra : ExtraArgs] :
         inv' = [inv EXCEPT ![c] =
                   Call("confluence_list_spaces", raw, ListSpacesInputErrors(raw),
                        ListSpacesInput(raw),
                        list_spaces_request(ListSpacesInput(raw)), environ)]
    /\ UNCHANGED <<environ, remote>>

confluence_list_spaces_resumed(c) ==
    /\ Awaiting(c, "confluence_list_spaces")
    /\ \E resp \in Answers :
         inv' = [inv EXCEPT ![c] = Finish(@, resp)]
    /\ UNCHANGED <<environ, remote>>

confluence_get_space(c) ==
    /\ inv[c].pc = "idle"
    /\ \E raw \in [space_id : RequiredStrArgs, response_format : FormatArgs,
                   extra : ExtraArgs] :
         inv' = [inv EXCEPT ![c] =
                   Call("confluence_get_space", raw, GetSpaceInputErrors(raw),
                        GetSpaceInput(raw),
                        get_space_request(GetSpaceInput(raw)), environ)]
    /\ UNCHANGED <<environ, remote>>

confluence_get_space_resumed(c) ==
    /\ Awaiting(c, "confluence_get_space")
    /\ \E resp \in Answers :
         inv' = [inv EXCEPT ![c] = Finish(@, resp)]
    /\ UNCHANGED <<environ, remote>>

confluence_get_space_by_key(c) ==
    /\ inv[c].pc = "idle"
    /\ \E raw \in [space_key : KeyArgs, response_format : FormatArgs,
                   extra : ExtraArgs] :
         inv' = [inv EXCEPT ![c] =
                   Call("confluence_get_space_by_key", raw,
                        GetSpaceByKeyInputErrors(raw), GetSpaceByKeyInput(raw),
                        get_space_by_key_request(GetSpaceByKeyInput(raw)), environ)]
    /\ UNCHANGED <<environ, remote>>

confluence_get_space_by_key_resumed(c) ==
    /\ Awaiting(c, "confluence_get_space_by_key")
    /\ \E resp \in Answers :
         inv' = [inv EXCEPT ![c] = Finish(@, resp)]
    /\ UNCHANGED <<environ, remote>>

confluence_list_pages(c) ==
    /\ inv[c].pc = "idle"
    /\ \E raw \in [space_id : OptStrArgs, limit : EdgeLimitArgs, cursor : CursorArgs,
                   title : CursorArgs, status : {{}, {None}, {Some(<<"a">>)}},
                   response_format : FormatArgs, extra : ExtraArgs] :
         inv' = [inv EXCEPT ![c] =
                   Call("confluence_list_pages", raw, ListPagesInputErrors(raw),
                        ListPagesInput(raw),
                        list_pages_request(ListPagesInput(raw)), environ)]
    /\ UNCHANGED <<environ, remote>>

confluence_list_pages_resumed(c) ==
    /\ Awaiting(c, "confluence_list_pages")
    /\ \E resp \in Answers :
         inv' = [inv EXCEPT ![c] = Finish(@, resp)]
    /\ UNCHANGED <<environ, remote>>

confluence_get_page(c) ==
    /\ inv[c].pc = "idle"
    /\ \E raw \in [page_id : RequiredStrArgs, include_body : BoolArgs,
                   body_format : {{}, {<<"view">>}},
                   response_format : FormatArgs, extra : ExtraArgs] :
         inv' = [inv EXCEPT ![c] =
                   Call("confluence_get_page", raw, GetPageInputErrors(raw),
                        GetPageInput(raw),
                        get_page_request(GetPageInput(raw)), environ)]
    /\ UNCHANGED <<environ, remote>>

confluence_get_page_resumed(c) ==
    /\ Awaiting(c, "confluence_get_page")
    /\ \E resp \in Answers :
         inv' = [inv EXCEPT ![c] = Finish(@, resp)]
    /\ UNCHANGED <<environ, remote>>

confluence_get_pages_in_space(c) ==
    /\ inv[c].pc = "idle"
    /\ \E raw \in [space_id : SmallStrArgs, limit : EdgeLimitArgs,
                   cursor : CursorArgs, depth : OptStrOrNoneArgs,
                   response_format : FormatArgs, extra : ExtraArgs] :
         inv' = [inv EXCEPT ![c] =
                   Call("confluence_get_pages_in_space", raw,
                        GetPagesInSpaceInputErrors(raw), GetPagesInSpaceInput(raw),
                        get_pages_in_space_request(GetPagesInSpaceInput(raw)),
                        environ)]
    /\ UNCHANGED <<environ, remote>>

confluence_get_pages_in_space_resumed(c) ==
    /\ Awaiting(c, "confluence_get_pages_in_space")
    /\ \E resp \in Answers :
         inv' = [inv EXCEPT ![c] = Finish(@, resp)]
    /\ UNCHANGED <<environ, remote>>

confluence_search(c) ==
    /\ inv[c].pc = "idle"
    /\ \E raw \in [query : RequiredStrArgs, limit : LimitArgs,
                   response_format : FormatArgs, extra : ExtraArgs] :
         inv' = [inv EXCEPT ![c] =
                   Call("confluence_search", raw, SearchContentInputErrors(raw),
                        SearchContentInput(raw),
                        search_request(SearchContentInput(raw)), environ)]
    /\ UNCHANGED <<environ, remote>>

confluence_search_resumed(c) ==
    /\ Awaiting(c, "confluence_search")
    /\ \E resp \in Answers :
         inv' = [inv EXCEPT ![c] = Finish(@, resp)]
    /\ UNCHANGED <<environ, remote>>

confluence_create_page(c) ==
    /\ inv[c].pc = "idle"
    /\ \E raw \in [space_id : RequiredStrArgs, title : SmallStrArgs,
                   body : {{}, {<<" ", "a">>}}, parent_id : OptStrOrNoneArgs,
                   response_format : FormatArgs, extra : ExtraArgs] :
         inv' = [inv EXCEPT ![c] =
                   Call("confluence_create_page", raw, CreatePageInputErrors(raw),
                        CreatePageInput(raw),
                        create_page_request(CreatePageInput(raw)), environ)]
    /\ UNCHANGED <<environ, remote>>

confluence_create_page_resumed(c) ==
    /\ Awaiting(c, "confluence_create_page")
    /\ \E resp \in Answers :
         inv' = [inv EXCEPT ![c] = Finish(@, resp)]
    /\ UNCHANGED <<environ, remote>>

confluence_update_page(c) ==
    /\ inv[c].pc = "idle"
    /\ \E raw \in [page_id : SmallStrArgs, title : CursorArgs,
                   body : OptStrOrNoneArgs, version_number : VersionArgs,
                   response_format : {{}, {JSON}}, extra : ExtraArgs] :
         inv' = [inv EXCEPT ![c] =
                   Call("confluence_update_page", raw, UpdatePageInputErrors(raw),
                        UpdatePageInput(raw),
                        update_page_read(UpdatePageInput(raw)), environ)]
    /\ UNCHANGED <<environ, remote>>

\* the GET has been answered
confluence_update_page_read(c) ==
    /\ Awaiting(c, "confluence_update_page")
    /\ Len(inv[c].sent) = 1
    /\ \E resp \in Answers :
         inv' = [inv EXCEPT ![c] = update_page_after_read(@, resp, environ)]
    /\ UNCHANGED <<environ, remote>>

\* the PUT has been answered
confluence_update_page_written(c) ==
    /\ Awaiting(c, "confluence_update_page")
    /\ Len(inv[c].sent) = 2
    /\ \E resp \in Answers :
         inv' = [inv EXCEPT ![c] = Finish(@, resp)]
    /\ UNCHANGED <<environ, remote>>

\* the hosting runtime hands the text or the failure to the caller, who may
\* call a tool again
Deliver(c) ==
    /\ inv[c].pc \in {"returned", "raised"}
    /\ inv' = [inv EXCEPT ![c] = Idle]
    /\ UNCHANGED <<environ, remote>>

Next ==
    \/ \E c \in DOMAIN inv : confluence_list_spaces(c)
    \/ \E c \in DOMAIN inv : confluence_list_spaces_resumed(c)
    \/ \E c \in DOMAIN inv : confluence_get_space(c)
    \/ \E c \in DOMAIN inv : confluence_get_space_resumed(c)
    \/ \E c \in DOMAIN inv : confluence_get_space_by_key(c)
    \/ \E c \in DOMAIN inv : confluence_get_space_by_key_resumed(c)
    \/ \E c \in DOMAIN inv : confluence_list_pages(c)
    \/ \E c \in DOMAIN inv : confluence_list_pages_resumed(c)
    \/ \E c \in DOMAIN inv : confluence_get_page(c)
    \/ \E c \in DOMAIN inv : confluence_get_page_resumed(c)
    \/ \E c \in DOMAIN inv : confluence_get_pages_in_space(c)
    \/ \E c \in DOMAIN inv : confluence_get_pages_in_space_resumed(c)
    \/ \E c \in DOMAIN inv : confluence_search(c)
    \/ \E c \in DOMAIN inv : confluence_search_resumed(c)
    \/ \E c \in DOMAIN inv : confluence_create_page(c)
    \/ \E c \in DOMAIN inv : confluence_create_page_resumed(c)
    \/ \E c \in DOMAIN inv : confluence_update_page(c)
    \/ \E c \in DOMAIN inv : confluence_update_page_read(c)
    \/ \E c \in DOMAIN inv : confluence_update_page_written(c)
    \/ \E c \in DOMAIN inv : Deliver(c)

Spec == Init /\ [][Next]_vars

\* ------------------------------- two callers against a remote service that
\* ------------------------------- locks optimistically
\* The remote service holds one page (id "7") and accepts a PUT only when the
\* version number it carries is the page's current version plus one. Two
\* callers each invoke confluence_update_page once; the event loop runs each
\* handler up to its next await, so the GETs and PUTs of the two interleave.

\* the remote's answer to the GET of the page
page_read(r) ==
    [status |-> 200, text |-> JsonText(PageWith(r.version, r.title, r.content), -1, 0)]

\* does the remote accept this PUT?
page_write_accepted(r, req) ==
    Item(Item(req.json, "version"), "number").n = r.version + 1

\* the page after an accepted PUT of caller c, who had read the page `read`:
\* the title is replaced, the content only if the payload has a body, the
\* version advances by one; applied records the write
page_written(r, c, req, read) ==
    [r EXCEPT !.version = @ + 1,
              !.title = Item(req.json, "title").s,
              !.content = IF HasKey(req.json, "body")
                          THEN Item(Item(req.json, "body"), "value").s ELSE @,
              !.applied = Append(@, [by |-> c, read |-> read, payload |-> req.json,
                                     version |-> r.version, title |-> r.title,
                                     content |-> r.content])]

\* the remote's answer to a PUT it refuses
VersionConflict == [status |-> 409, text |-> <<"Version conflict">>]

InitRemote ==
    /\ inv = [c \in {1, 2} |-> Idle]
    /\ environ = CredentialVars
    /\ \E v \in 1..MaxVersion :
         remote = [version |-> v, title |-> <<"t">>, content |-> <<"a", " ">>,
                   first |-> v, applied |-> <<>>]

\* a caller invokes confluence_update_page on the page
update_page_called(c) ==
    /\ inv[c].pc = "idle"
    /\ \E raw \in [page_id : {{<<"7">>}}, title : CursorArgs,
                   body : {{}, {Some(<<"a">>)}},
                   version_number : {{n} : n \in 1..MaxVersion},
                   response_format : {{}}, extra : {{}}] :
         inv' = [inv EXCEPT ![c] =
                   Call("confluence_update_page", raw, UpdatePageInputErrors(raw),
                        UpdatePageInput(raw),
                        update_page_read(UpdatePageInput(raw)), environ)]
    /\ UNCHANGED <<environ, remote>>

\* the remote answers the GET (or the request fails on the way), and the
\* handler goes on to its PUT
update_page_read_served(c) ==
    /\ Awaiting(c, "confluence_update_page")
    /\ Len(inv[c].sent) = 1
    /\ \E resp \in {page_read(remote), TransportFailure} :
         inv' = [inv EXCEPT ![c] = update_page_after_read(@, resp, environ)]
    /\ UNCHANGED <<environ, remote>>

\* the remote takes the PUT and applies or refuses it; the request may fail
\* before it arrives, and the answer may be lost after the write
update_page_write_served(c) ==
    /\ Awaiting(c, "confluence_update_page")
    /\ Len(inv[c].sent) = 2
    /\ LET req == inv[c].sent[2]
           after == page_written(remote, c, req, inv[c].current)
       IN \/ /\ page_write_accepted(remote, req)
             /\ remote' = after
             /\ \E resp \in {page_read(after), TransportFailure} :
                  inv' = [inv EXCEPT ![c] = Finish(@, resp)]
          \/ /\ ~page_write_accepted(remote, req)
             /\ remote' = remote
             /\ inv' = [inv EXCEPT ![c] = Finish(@, VersionConflict)]
          \/ /\ remote' = remote
             /\ inv' = [inv EXCEPT ![c] = Finish(@, TransportFailure)]
    /\ UNCHANGED environ

NextRemote ==
    \/ \E c \in DOMAIN inv : update_page_called(c)
    \/ \E c \in DOMAIN inv : update_page_read_served(c)
    \/ \E c \in DOMAIN inv : update_page_write_served(c)

SpecRemote == InitRemote /\ [][NextRemote]_vars

\* ------------------------------------------------------------------ claims
Started(i, tool) == i.pc # "idle" /\ i.tool = tool

\* the answer is a success carrying a JSON object or nothing
Succeeded(resp) ==
    /\ resp # TransportFailure
    /\ resp.status < 400
    /\ \/ resp.text = <<>>
       \/ \E v \in Payloads : JsonText(v, -1, 0) = resp.text

PageUrl(id) == <<CONFLUENCE_API_V2, "/pages/">> \o id

\* version.number of a PUT payload
VersionSent(req) == Item(Item(req.json, "version"), "number")

\* C1: update_page sends a PUT whose version.number is the caller-supplied
\* version_number plus one, whatever version the page read by the GET is at;
\* once the GET has succeeded the PUT goes out without any comparison of the
\* two versions.
C1_PutCarriesSuppliedVersionPlusOne ==
    \A c \in DOMAIN inv :
       LET i == inv[c]
       IN Started(i, "confluence_update_page") =>
            /\ Len(i.sent) >= 2 =>
                 /\ i.sent[2].method = "PUT"
                 /\ \A n \in i.raw.version_number : VersionSent(i.sent[2]) = JNum(n + 1)
            /\ (i.answered = 1 /\ Succeeded(i.response)) =>
                 (i.pc = "awaiting" /\ Len(i.sent) = 2)

\* C1 witness: the PUT is out with version 2 for a caller that supplied 1 while
\* the page the GET returned is at a later version.
C1_StalePutSent ==
    \E c \in DOMAIN inv :
       LET i == inv[c]
       IN /\ Started(i, "confluence_update_page")
          /\ Len(i.sent) = 2
          /\ i.raw.version_number = {1}
          /\ i.current = PageAt(MaxVersion + 1)
          /\ VersionSent(i.sent[2]) = JNum(2)

\* C2: update_page sends GET /pages/{id} first and PUT /pages/{id} second, the
\* PUT only once the GET has been answered successfully; a GET that fails
\* (401, 403, 404, another status >= 400, no response) ends the invocation in
\* failure with the GET the only request sent.
C2_ReadThenWrite ==
    \A c \in DOMAIN inv :
       LET i == inv[c]
       IN Started(i, "confluence_update_page") =>
            /\ Len(i.sent) <= 2
            /\ Len(i.sent) >= 1 =>
                 /\ i.sent[1].method = "GET"
                 /\ i.sent[1].url = PageUrl(i.params.page_id)
            /\ Len(i.sent) = 2 =>
                 /\ i.sent[2].method = "PUT"
                 /\ i.sent[2].url = PageUrl(i.params.page_id)
                 /\ i.answered >= 1
                 /\ i.answered = 1 => Succeeded(i.response)
            /\ (i.answered = 1 /\ ~Succeeded(i.response)) =>
                 (i.pc = "raised" /\ Len(i.sent) = 1)

\* C2 witness: the GET was answered 404 and the invocation has failed.
C2_ReadFailed ==
    \E c \in DOMAIN inv :
       LET i == inv[c]
       IN /\ Started(i, "confluence_update_page")
          /\ i.answered = 1
          /\ i.response.status = 404
          /\ i.pc = "raised"

\* the mapping the handler holds after its latest answer
Held(i) ==
    IF i.tool = "confluence_update_page" /\ i.answered = 1 THEN i.current ELSE i.data

\* what follows "API error <status>: " in the error's message
DetailOf(err) == SubSeq(err.msg, 4, Len(err.msg))

\* the statuses mapped to failures and the parts of the outcome that do not
\* depend on the body
StatusOutcome(i) ==
    LET resp == i.response
    IN /\ resp.status = 401 => (i.pc = "raised" /\ i.error = AuthenticationFailed)
       /\ resp.status = 403 => (i.pc = "raised" /\ i.error = PermissionDenied)
       /\ resp.status = 404 => (i.pc = "raised" /\ i.error = ResourceNotFound)
       /\ (resp.status >= 400 /\ resp.status \notin {401, 403, 404}) =>
            /\ i.pc = "raised"
            /\ i.error.type = "ValueError"
            /\ SubSeq(i.error.msg, 1, 3) = <<"API error ", ToString(resp.status), ": ">>
            /\ Len(DetailOf(i.error)) <= 500
            /\ IF resp.text = <<>> THEN DetailOf(i.error) = <<"No details">>
               ELSE /\ Len(DetailOf(i.error)) = Min(500, Len(resp.text))
                    /\ \A k \in 1..Len(DetailOf(i.error)) :
                          DetailOf(i.error)[k] = resp.text[k]
       /\ Cardinality({AuthenticationFailed, PermissionDenied, ResourceNotFound,
                       ApiError(resp.status, resp.text)}) = 4

\* C3 as stated: 401, 403, 404 and any other status >= 400 each yield their own
\* failure, the last with the status and at most the first 500 characters of
\* the body, and every status below 400 yields the parsed JSON body, or an
\* empty mapping when the body is empty.
C3_EveryStatusBelow400YieldsAMapping ==
    \A c \in DOMAIN inv :
       LET i == inv[c]
       IN (i.answered >= 1 /\ i.response # TransportFailure) =>
            /\ StatusOutcome(i)
            /\ i.response.status < 400 =>
                 /\ i.pc # "raised"
                 /\ IF i.response.text = <<>> THEN Held(i) = EmptyDict
                    ELSE JsonText(Held(i), -1, 0) = i.response.text

\* C3, amended: as stated, except that a status below 400 yields the parsed
\* body only when the body is JSON; with a body that is neither empty nor JSON
\* the call fails with the parser's decoding error, a failure of a fifth kind.
C3_StatusOutcomes ==
    \A c \in DOMAIN inv :
       LET i == inv[c]
       IN (i.answered >= 1 /\ i.response # TransportFailure) =>
            /\ StatusOutcome(i)
            /\ i.response.status < 400 =>
                 IF i.response.text = <<>>
                 THEN i.pc # "raised" /\ Held(i) = EmptyDict
                 ELSE IF \E v \in Payloads : JsonText(v, -1, 0) = i.response.text
                 THEN i.pc # "raised" /\ JsonText(Held(i), -1, 0) = i.response.text
                 ELSE /\ i.pc = "raised"
                      /\ i.error.type = "JSONDecodeError"
                      /\ i.error \notin {AuthenticationFailed, PermissionDenied,
                                         ResourceNotFound}

\* C3 witness: a 400 whose body is longer than 500 characters has been mapped
\* to an API error.
C3_LongErrorBodyCut ==
    \E c \in DOMAIN inv :
       LET i == inv[c]
       IN /\ i.pc = "raised"
          /\ i.answered = 1
          /\ i.response.status = 400
          /\ Len(i.response.text) > 500
          /\ Len(DetailOf(i.error)) = 500

MaxRequests(tool) == IF tool = "confluence_update_page" THEN 2 ELSE 1

\* C4: an invocation sends at most one request (two for update_page), never
\* the same request twice, and has at most one request unanswered; a failed
\* call leaves the invocation failed with every request it sent answered.
C4_NoRetry ==
    \A c \in DOMAIN inv :
       LET i == inv[c]
       IN /\ Len(i.sent) <= MaxRequests(i.tool)
          /\ i.answered <= Len(i.sent)
          /\ Len(i.sent) <= i.answered + 1
          /\ \A j, k \in 1..Len(i.sent) : j # k => i.sent[j] # i.sent[k]
          /\ (i.answered >= 1 /\ ~Succeeded(i.response)) =>
               (i.pc = "raised" /\ i.answered = Len(i.sent))

\* C4 witness: a one-request tool answered 404 has failed after that one request.
C4_FailedAfterOneRequest ==
    \E c \in DOMAIN inv :
       LET i == inv[c]
       IN /\ Started(i, "confluence_get_page")
          /\ i.pc = "raised"
          /\ i.error = ResourceNotFound
          /\ Len(i.sent) = 1

\* the mapping a successful answer carries
Payload(resp) ==
    IF resp.text = <<>> THEN EmptyDict
    ELSE CHOOSE v \in Payloads : JsonText(v, -1, 0) = resp.text

\* the payload has no results: the member is missing, null or an empty list
EmptyResults(payload) ==
    \A k \in 1..Len(payload.kv) :
       payload.kv[k][1] = "results" => payload.kv[k][2] \in {JNull, JArr(<<>>)}

\* text is the indented serialization of payload and of no other payload
Serializes(text, payload) ==
    /\ text = JsonText(payload, 2, 0)
    /\ \A v \in Payloads : JsonText(v, 2, 0) = text => v = payload

\* C5 as stated: with response_format=json every operation, get_space_by_key
\* included, returns exactly the indented JSON serialization of the payload the
\* remote service returned, so that parsing it gives that payload back.
C5_JsonIsThePayloadForEveryTool ==
    \A c \in DOMAIN inv :
       LET i == inv[c]
       IN (i.pc = "returned" /\ i.params.response_format = JSON) =>
            Serializes(i.result, Payload(i.response))

\* C5, amended: with response_format=json every operation but get_space_by_key
\* returns exactly the indented JSON serialization of the payload the remote
\* service returned, empty results included; get_space_by_key returns the
\* serialization of the first record of the payload's results, and the plain
\* "not found" text when there is none.
C5_JsonIsThePayload ==
    \A c \in DOMAIN inv :
       LET i == inv[c]
           payload == Payload(i.response)
       IN (i.pc = "returned" /\ i.params.response_format = JSON) =>
            IF i.tool # "confluence_get_space_by_key"
            THEN Serializes(i.result, payload)
            ELSE IF EmptyResults(payload)
            THEN i.result = <<"Space with key '">> \o i.params.space_key
                               \o <<"' not found.">>
            ELSE i.result = JsonText(Item(payload, "results").a[1], 2, 0)

\* C5 witness: a list operation has returned, as JSON, a payload whose results
\* are empty.
C5_EmptyListAsJson ==
    \E c \in DOMAIN inv :
       LET i == inv[c]
       IN /\ Started(i, "confluence_get_pages_in_space")
          /\ i.pc = "returned"
          /\ i.params.response_format = JSON
          /\ Payload(i.response) = ListOf(<<>>)

ListTools ==
    {"confluence_list_spaces", "confluence_list_pages",
     "confluence_get_pages_in_space", "confluence_search"}

\* the "no results" text of a list operation
NoResultsText(i) ==
    CASE i.tool = "confluence_list_spaces" -> <<"No spaces found.">>
      [] i.tool = "confluence_list_pages" -> <<"No pages found.">>
      [] i.tool = "confluence_get_pages_in_space" ->
           <<"No pages found in space ">> \o Strip(TheOne(i.raw.space_id)) \o <<".">>
      [] i.tool = "confluence_search" ->
           <<"No results found for query: ">> \o Strip(TheOne(i.raw.query))

\* C6 as stated: a list operation whose remote result set is empty returns its
\* "no results" message, for every valid input, and does not fail.
C6_EmptyListAlwaysYieldsTheMessage ==
    \A c \in DOMAIN inv :
       LET i == inv[c]
       IN (i.tool \in ListTools /\ i.answered = 1 /\ Succeeded(i.response)
           /\ EmptyResults(Payload(i.response))) =>
            (i.pc = "returned" /\ i.result = NoResultsText(i))

\* C6, amended: a list operation whose remote result set is empty does not
\* fail; with response_format=markdown it returns its "no results" message
\* (which names the space id for get_pages_in_space and the query for search),
\* and with response_format=json it returns the serialized payload instead.
C6_EmptyListYieldsTheMessageInMarkdown ==
    \A c \in DOMAIN inv :
       LET i == inv[c]
       IN (i.tool \in ListTools /\ i.answered = 1 /\ Succeeded(i.response)
           /\ EmptyResults(Payload(i.response))) =>
            /\ i.pc = "returned"
            /\ i.raw.response_format \subseteq {MARKDOWN} => i.result = NoResultsText(i)
            /\ i.raw.response_format = {JSON} =>
                 i.result = JsonText(Payload(i.response), 2, 0)

\* C6 witness: a search rendered as markdown found nothing and returned its
\* message.
C6_SearchFoundNothing ==
    \E c \in DOMAIN inv :
       LET i == inv[c]
       IN /\ Started(i, "confluence_search")
          /\ i.pc = "returned"
          /\ i.params.response_format = MARKDOWN
          /\ Payload(i.response) = ListOf(<<>>)
          /\ i.result = <<"No results found for query: ", "a">>

\* the documented upper bound of limit
LimitCeiling(tool) == IF tool = "confluence_search" THEN 100 ELSE 250

\* C7: a limit below 1 or above the operation's bound (250; 100 for search) is
\* rejected by validation with no request sent; a limit within the bounds is
\* accepted and is the limit query parameter of the request.
C7_LimitBounds ==
    \A c \in DOMAIN inv :
       LET i == inv[c]
       IN (i.pc # "idle" /\ i.tool \in ListTools) =>
            \A n \in i.raw.limit :
               IF n < 1 \/ n > LimitCeiling(i.tool)
               THEN /\ i.pc = "raised"
                    /\ i.error = ValidationError
                    /\ "limit" \in i.invalid
                    /\ i.sent = <<>>
               ELSE /\ "limit" \notin i.invalid
                    /\ (i.invalid = {} /\ CredentialVars \subseteq environ) =>
                         (Len(i.sent) = 1 /\ i.sent[1].params.limit = n)

\* C7 witness: list_spaces called with limit=251 has been rejected.
C7_LimitAboveBoundRejected ==
    \E c \in DOMAIN inv :
       LET i == inv[c]
       IN /\ Started(i, "confluence_list_spaces")
          /\ i.raw.limit = {251}
          /\ i.invalid = {"limit"}
          /\ i.pc = "raised"

\* C8: an input carrying an argument its operation's schema does not declare is
\* rejected by validation, with no request sent, whatever the declared ones are.
C8_UndeclaredArgumentsRejected ==
    \A c \in DOMAIN inv :
       LET i == inv[c]
       IN (i.pc # "idle" /\ i.raw.extra # {}) =>
            /\ i.pc = "raised"
            /\ i.error = ValidationError
            /\ i.raw.extra \subseteq i.invalid
            /\ i.sent = <<>>

\* C8 witness: update_page was rejected for the undeclared argument alone.
C8_OnlyTheUndeclaredArgumentIsWrong ==
    \E c \in DOMAIN inv :
       LET i == inv[c]
       IN /\ Started(i, "confluence_update_page")
          /\ i.raw.extra # {}
          /\ i.invalid = i.raw.extra
          /\ i.pc = "raised"

\* C9: get_space_by_key sends one request, a GET on the spaces collection with
\* the key as keys and limit=1; when that matches no space it returns the "not
\* found" text and does not fail.
C9_KeyLookup ==
    \A c \in DOMAIN inv :
       LET i == inv[c]
       IN Started(i, "confluence_get_space_by_key") =>
            /\ Len(i.sent) <= 1
            /\ Len(i.sent) = 1 =>
                 i.sent[1] = [method |-> "GET",
                              url |-> <<CONFLUENCE_API_V2, "/spaces">>,
                              params |-> [keys |-> Strip(TheOne(i.raw.space_key)),
                                          limit |-> 1],
                              json |-> NoJson]
            /\ (i.answered = 1 /\ Succeeded(i.response)
                /\ EmptyResults(Payload(i.response))) =>
                 /\ i.pc = "returned"
                 /\ i.result = <<"Space with key '">> \o Strip(TheOne(i.raw.space_key))
                                  \o <<"' not found.">>
                 /\ Len(i.sent) = 1

\* C9 witness: the lookup matched nothing and returned.
C9_NoSpaceMatched ==
    \E c \in DOMAIN inv :
       LET i == inv[c]
       IN /\ Started(i, "confluence_get_space_by_key")
          /\ i.pc = "returned"
          /\ Payload(i.response) = ListOf(<<>>)

\* the request goes to /spaces, /spaces/{id} or /spaces/{id}/pages
ToSpaces(req) == req.url[1] = CONFLUENCE_API_V2 /\ req.url[2] \in {"/spaces", "/spaces/"}

\* C10: every request to a spaces endpoint is a GET; only create_page sends a
\* POST, and only to /pages; only update_page sends a PUT, and only to
\* /pages/{id}; no other method is used.
C10_SpacesAreOnlyRead ==
    \A c \in DOMAIN inv :
       LET i == inv[c]
       IN \A k \in 1..Len(i.sent) :
             LET req == i.sent[k]
             IN /\ req.method \in {"GET", "POST", "PUT"}
                /\ ToSpaces(req) => req.method = "GET"
                /\ req.method = "POST" =>
                     /\ i.tool = "confluence_create_page"
                     /\ req.url = <<CONFLUENCE_API_V2, "/pages">>
                /\ req.method = "PUT" =>
                     /\ i.tool = "confluence_update_page"
                     /\ req.url = PageUrl(i.params.page_id)
                /\ i.tool \notin {"confluence_create_page", "confluence_update_page"} =>
                     req.method = "GET"

\* C10 witness: create_page has sent its POST.
C10_PagePosted ==
    \E c \in DOMAIN inv :
       LET i == inv[c]
       IN /\ Started(i, "confluence_create_page")
          /\ Len(i.sent) = 1
          /\ i.sent[1].method = "POST"

\* the body member a PUT payload carries for the body text v
StorageBody(v) ==
    JObj(<< <<"representation", JStr(<<"storage">>)>>, <<"value", JStr(v)>> >>)

\* the caller passed a body: the argument is there and is not None
BodySupplied(raw) == raw.body # {} /\ TheOne(raw.body) # None

\* C11: the PUT payload of update_page has a "body" member exactly when the
\* caller supplied a body (the argument is present and not None); the member
\* is then the storage representation of the supplied text, stripped, and
\* without a supplied body the payload has no "body" member at all
C11_BodySentExactlyWhenSupplied ==
    \A c \in DOMAIN inv :
       LET i == inv[c]
       IN (Started(i, "confluence_update_page") /\ Len(i.sent) = 2) =>
            LET payload == i.sent[2].json
            IN IF BodySupplied(i.raw)
               THEN /\ HasKey(payload, "body")
                    /\ Item(payload, "body")
                         = StorageBody(Strip(TheOne(TheOne(i.raw.body))))
               ELSE ~HasKey(payload, "body")

\* C11 witness: a PUT went out for a call without a body, after a GET that
\* returned a page with content, and restates the title without any body
C11_PutWithoutBody ==
    \E c \in DOMAIN inv :
       LET i == inv[c]
       IN /\ Started(i, "confluence_update_page") /\ Len(i.sent) = 2
          /\ i.raw.body = {}
          /\ HasKey(i.current, "body")
          /\ HasKey(i.sent[2].json, "title")
          /\ ~HasKey(i.sent[2].json, "body")

\* C11 second case: a whitespace-only body counts as supplied and is sent as
\* the empty text
C11_PutWithEmptyBody ==
    \E c \in DOMAIN inv :
       LET i == inv[c]
       IN /\ Started(i, "confluence_update_page") /\ Len(i.sent) = 2
          /\ i.raw.body = {Some(<<" ">>)}
          /\ Item(i.sent[2].json, "body") = StorageBody(<<>>)

\* the parent id a create_page call names: the stripped argument when it is
\* there, not None and not empty
ParentSet(raw) ==
    IF raw.parent_id = {} \/ TheOne(raw.parent_id) = None THEN None
    ELSE LET id == Strip(TheOne(TheOne(raw.parent_id)))
         IN IF id = <<>> THEN None ELSE Some(id)

\* C12: the POST payload of create_page has the member "parentId" with the
\* caller's parent id as a string when a (non-empty) parent id is set, and has
\* no "parentId" member at all, neither null nor anything else, when none is
\* set; its serialization then does not contain the member name
C12_ParentIdSentOrAbsent ==
    \A c \in DOMAIN inv :
       LET i == inv[c]
       IN (Started(i, "confluence_create_page") /\ Len(i.sent) = 1) =>
            LET payload == i.sent[1].json
                parent == ParentSet(i.raw)
            IN IF parent # None
               THEN /\ HasKey(payload, "parentId")
                    /\ Item(payload, "parentId") = JStr(TheOne(parent))
               ELSE /\ ~HasKey(payload, "parentId")
                    /\ \A k \in 1..Len(payload.kv) : payload.kv[k][2] # JNull
                    /\ \A k \in 1..Len(JsonText(payload, -1, 0)) :
                          JsonText(payload, -1, 0)[k] # "parentId"

\* C12 witness: a page was posted with the parent "a" in its payload
C12_PostedUnderParent ==
    \E c \in DOMAIN inv :
       LET i == inv[c]
       IN /\ Started(i, "confluence_create_page") /\ Len(i.sent) = 1
          /\ i.raw.parent_id = {Some(<<"a">>)}
          /\ i.sent[1].method = "POST"
          /\ Item(i.sent[1].json, "parentId") = JStr(<<"a">>)

\* C12 second case: a page was posted without a parent, and its payload has
\* the four other members only
C12_PostedWithoutParent ==
    \E c \in DOMAIN inv :
       LET i == inv[c]
       IN /\ Started(i, "confluence_create_page") /\ Len(i.sent) = 1
          /\ i.raw.parent_id = {}
          /\ Len(i.sent[1].json.kv) = 4

\* the operations that list with a cursor
PagedListTools ==
    {"confluence_list_spaces", "confluence_list_pages",
     "confluence_get_pages_in_space"}

\* the payload carries a pagination next link: _links.next is a non-empty string
CarriesNextLink(payload) ==
    /\ HasKey(payload, "_links")
    /\ HasKey(Item(payload, "_links"), "next")
    /\ Item(Item(payload, "_links"), "next").t = "str"
    /\ Item(Item(payload, "_links"), "next").s # <<>>

\* the text opens with a heading that counts n results
HasCountHeader(text, n) ==
    /\ Len(text) >= 3
    /\ text[1] \in {"# Confluence Spaces (", "# Confluence Pages (", "# Pages in Space ("}
    /\ text[2] = ToString(n)
    /\ text[3] = " results)\n\n"

\* the text closes with the notice that more results are available
HasMoreNotice(text) ==
    /\ text # <<>>
    /\ text[Len(text)] \in
         {"\n**More results available.** Use cursor to get next page.",
          "\n**More results available.** Use cursor for next page."}

\* a list operation has returned markdown for a payload with results
ListedInMarkdown(i) ==
    /\ i.tool \in PagedListTools /\ i.pc = "returned"
    /\ i.params.response_format = MARKDOWN
    /\ Succeeded(i.response)
    /\ ~EmptyResults(Payload(i.response))
    /\ HasKey(Payload(i.response), "results")

\* C13 as stated: list_spaces, list_pages and get_pages_in_space, rendering a
\* non-empty result as markdown, each open with a header counting the results
\* and close with the "more results available" notice exactly when the
\* payload carries a pagination next link.
C13_ListFormattersCountAndNotice ==
    \A c \in DOMAIN inv :
       LET i == inv[c]
       IN ListedInMarkdown(i) =>
            LET payload == Payload(i.response)
            IN /\ HasCountHeader(i.result, Len(Item(payload, "results").a))
               /\ CarriesNextLink(payload) <=> HasMoreNotice(i.result)

\* C13, the part the code keeps: every one of the three opens with the count
\* header, and list_spaces and list_pages close with the notice exactly when
\* _links.next is a non-empty string
C13_CountAlwaysNoticeForSpacesAndPages ==
    \A c \in DOMAIN inv :
       LET i == inv[c]
       IN ListedInMarkdown(i) =>
            LET payload == Payload(i.response)
            IN /\ HasCountHeader(i.result, Len(Item(payload, "results").a))
               /\ i.tool # "confluence_get_pages_in_space" =>
                    (CarriesNextLink(payload) <=> HasMoreNotice(i.result))

\* C13, the failing case: get_pages_in_space returned markdown for a payload
\* with a next link, and the text ends with the last page's URL, not the notice
C13_PagesInSpaceWithoutNotice ==
    \E c \in DOMAIN inv :
       LET i == inv[c]
       IN /\ ListedInMarkdown(i) /\ i.tool = "confluence_get_pages_in_space"
          /\ CarriesNextLink(Payload(i.response))
          /\ ~HasMoreNotice(i.result)

\* the version number a caller passed
Supplied(i) == TheOne(i.raw.version_number)

\* both callers have invoked update_page with the same version number
SameVersionSupplied ==
    /\ \A c \in DOMAIN inv : Started(inv[c], "confluence_update_page")
    /\ \A c, d \in DOMAIN inv : Supplied(inv[c]) = Supplied(inv[d])

\* an applied write was fresh: the page had, when the write was applied, the
\* version its writer had read, and the title and space id the payload
\* restates from that read were the page's own
Fresh(w) ==
    /\ Item(Item(w.read, "version"), "number").n = w.version
    /\ Item(w.read, "title") = JStr(w.title)
    /\ Item(w.payload, "spaceId") = JStr(<<"9">>)
    /\ inv[w.by].params.title = None => Item(w.payload, "title") = JStr(w.title)

\* C14: against a remote that accepts a PUT only at current version plus one,
\* when the two update_page invocations supply the same version number, at
\* most one PUT is applied, the page's version advances by at most one, and
\* every applied PUT is fresh; that holds in every interleaving of the two
C14_SameVersionAtMostOneFreshWrite ==
    SameVersionSupplied =>
       /\ Len(remote.applied) <= 1
       /\ remote.version <= remote.first + 1
       /\ remote.version = remote.first + Len(remote.applied)
       /\ \A k \in 1..Len(remote.applied) : Fresh(remote.applied[k])

\* C14 witness: both callers supplied the page's version and read the page
\* before either wrote; one PUT was applied and the other refused with 409
C14_OneAppliedOneRefused ==
    /\ SameVersionSupplied
    /\ Len(remote.applied) = 1
    /\ \E c, d \in DOMAIN inv :
         /\ c # d /\ remote.applied[1].by = c
         /\ inv[c].pc = "returned"
         /\ inv[d].pc = "raised" /\ inv[d].response = VersionConflict
         /\ inv[d].current = remote.applied[1].read

\* Without the same version number the guarantee is gone: a caller whose
\* number is one ahead writes after the other and restates the title it read
\* before the other's write (this is reachable; see C14's reason)
C14_StaleWriteWhenVersionsDiffer ==
    /\ \A c \in DOMAIN inv : Started(inv[c], "confluence_update_page")
    /\ \E k \in 1..Len(remote.applied) : ~Fresh(remote.applied[k])

====
